---- MODULE Spec2Model ----
(***************************************************************************)
(* Model of the filter form of the dashboard: Option, DateSelector,        *)
(* Select and FilterForm of modules/components/filterForm.py.              *)
(*                                                                         *)
(* Python objects live in a heap (object id -> record of attributes); an   *)
(* attribute that holds an object (Select._value, the elements of          *)
(* FilterForm._fields) holds its id.  A raised exception is recorded in    *)
(* last.err together with the state the raising code left behind.          *)
(***************************************************************************)
EXTENDS Integers, Sequences, FiniteSets, TLC

VARIABLES heap, _fields, last

vars == <<heap, _fields, last>>

(***************************************************************************)
(* Python values: None, str and int, tagged with their type.  An int       *)
(* carries its decimal digits.                                             *)
(***************************************************************************)
None == <<"NoneType", "None">>

PyStr(s) == <<"str", s>>

PyInt(digits) == <<"int", digits>>

\* str(x): the identity on a str, the decimal digits of an int, "None" of None.
str(x) == PyStr(x[2])

\* Truth value of a Python value, as tested by `value if value else ...`.
Truthy(x) ==
    CASE x[1] = "NoneType" -> FALSE
      [] x[1] = "str"      -> x[2] # ""
      [] x[1] = "int"      -> x[2] # "0"

default_value == PyStr("ANY")

date_format == "%Y-%m-%d"

\* A null object reference (self._value = None in a Select).
NoneRef == 0

(***************************************************************************)
(* Bounds of the model.                                                    *)
(***************************************************************************)
MaxOptions == 2

MaxUpdateLen == 2

MaxKeys == 2

MaxRows == 2

(***************************************************************************)
(* Characters and numbers of a string.                                     *)
(***************************************************************************)
Char(s, i) == IF i >= 1 /\ i <= Len(s) THEN SubSeq(s, i, i) ELSE ""

Digits == <<"0", "1", "2", "3", "4", "5", "6", "7", "8", "9">>

IsDigit(c) == \E i \in 1..10 : Digits[i] = c

DigitVal(c) == (CHOOSE i \in 1..10 : Digits[i] = c) - 1

\* The minimum of a non-empty set of integers.
Min(S) == CHOOSE m \in S : \A n \in S : m <= n

Max(S) == CHOOSE m \in S : \A n \in S : m >= n

(***************************************************************************)
(* datetime.strftime("%Y-%m-%d") of a date <<year, month, day>>: the year  *)
(* on four digits, month and day on two, zero padded.                      *)
(***************************************************************************)
Pad2(n) == Digits[((n \div 10) % 10) + 1] \o Digits[(n % 10) + 1]

Pad4(n) == Pad2(n \div 100) \o Pad2(n % 100)

strftime(date) == Pad4(date[1]) \o "-" \o Pad2(date[2]) \o "-" \o Pad2(date[3])

(***************************************************************************)
(* datetime.strptime(s, "%Y-%m-%d").  The format compiles to the regular   *)
(* expression  \d\d\d\d - (1[0-2]|0[1-9]|[1-9]) - (3[01]|[12]\d|0[1-9]|    *)
(* [1-9]| [1-9])  matched at the start of s; text left over after the      *)
(* match, year 0 and a day the month does not have are errors.             *)
(***************************************************************************)
IsLeap(y) == (y % 4 = 0 /\ y % 100 # 0) \/ y % 400 = 0

DaysInMonth(y, m) ==
    IF m = 2 THEN (IF IsLeap(y) THEN 29 ELSE 28)
    ELSE IF m \in {4, 6, 9, 11} THEN 30 ELSE 31

\* Length of the month directive's match at position p (0: no match); the
\* match must be followed by the "-" of the format.
MonthLen(s, p) ==
    LET c1 == Char(s, p)
        c2 == Char(s, p + 1)
        two == \/ c1 = "1" /\ c2 \in {"0", "1", "2"}
               \/ c1 = "0" /\ IsDigit(c2) /\ c2 # "0"
    IN  IF two /\ Char(s, p + 2) = "-" THEN 2
        ELSE IF IsDigit(c1) /\ c1 # "0" /\ c2 = "-" THEN 1
        ELSE 0

\* Length of the day directive's match at position p (0: no match); the
\* alternatives are tried in the order of the expression.
DayLen(s, p) ==
    LET c1 == Char(s, p)
        c2 == Char(s, p + 1)
    IN  IF \/ c1 = "3" /\ c2 \in {"0", "1"}
           \/ c1 \in {"1", "2"} /\ IsDigit(c2)
           \/ c1 = "0" /\ IsDigit(c2) /\ c2 # "0"
        THEN 2
        ELSE IF IsDigit(c1) /\ c1 # "0" THEN 1
        ELSE IF c1 = " " /\ IsDigit(c2) /\ c2 # "0" THEN 2
        ELSE 0

\* The number written at positions p .. p+n-1 of s, blanks skipped.
Number(s, p, n) ==
    LET val(i) == IF IsDigit(Char(s, i)) THEN DigitVal(Char(s, i)) ELSE 0
    IN  IF n = 1 THEN val(p)
        ELSE IF n = 2 THEN 10 * val(p) + val(p + 1)
        ELSE 1000 * val(p) + 100 * val(p + 1) + 10 * val(p + 2) + val(p + 3)

\* TRUE iff strptime(s, date_format) returns a date (raises nothing).
strptime(s) ==
    /\ \A i \in 1..4 : IsDigit(Char(s, i))
    /\ Char(s, 5) = "-"
    /\ LET mlen == MonthLen(s, 6)
           dpos == 6 + mlen + 1
           dlen == DayLen(s, dpos)
       IN  /\ mlen > 0
           /\ dlen > 0
           /\ dpos + dlen - 1 = Len(s)
           /\ Number(s, 1, 4) >= 1
           /\ Number(s, dpos, dlen) <= DaysInMonth(Number(s, 1, 4), Number(s, 6, mlen))

(***************************************************************************)
(* The record of the last operation: its name, the object it was called    *)
(* on, its arguments, the exception it raised ("" when it returned) and    *)
(* the key an UnknownField error names, and for the operations that have   *)
(* them the request parameters and the returned value.  After a            *)
(* constructor, values and arg are the options and the value it was given. *)
(***************************************************************************)
NoLast ==
    [op |-> "init", obj |-> 0, arg |-> None, label |-> "", values |-> <<>>,
     ignore |-> TRUE, err |-> "", key |-> None, params |-> <<>>, result |-> None]

(***************************************************************************)
(* class Option: a value and a selection flag.  id is the identity of the  *)
(* object.                                                                 *)
(***************************************************************************)
Option(id, value, is_selected) ==
    [id |-> id, value |-> value, is_selected |-> is_selected]

\* The Option objects of a heap h, and the one a reference denotes.
AllOptions(h) ==
    UNION {{h[o]._options[i] : i \in DOMAIN h[o]._options} : o \in DOMAIN h}

Deref(h, ref) == CHOOSE opt \in AllOptions(h) : opt.id = ref

(***************************************************************************)
(* class DateSelector                                                      *)
(***************************************************************************)
\* name.replace("_", " ")
RECURSIVE replace_underscore(_)
replace_underscore(s) ==
    IF s = "" THEN ""
    ELSE (IF Char(s, 1) = "_" THEN " " ELSE Char(s, 1))
         \o replace_underscore(SubSeq(s, 2, Len(s)))

\* DateSelector.__init__(name, label_name, value), called on the day `today`.
DateSelector(name, label_name, value, today) ==
    [kind       |-> "date",
     name       |-> name,
     label_name |-> IF label_name # "" THEN label_name
                    ELSE replace_underscore(name[2]),
     _value     |-> IF Truthy(value) THEN value ELSE PyStr(strftime(today)),
     _options   |-> <<>>]

\* The value getter of a DateSelector.
DateSelector_value(d) == d._value

\* A setter that stores the string before it validates it.
DateSelector_value_set_unchecked(d, new_dt_value) ==
    IF new_dt_value = None THEN [obj |-> d, err |-> ""]
    ELSE [obj |-> [d EXCEPT !._value = new_dt_value],
          err |-> IF new_dt_value[1] = "str" /\ strptime(new_dt_value[2])
                  THEN "" ELSE "ValueError"]

\* A setter that stores the parsed date formatted anew.
DateSelector_value_set_reformat(d, new_dt_value) ==
    IF new_dt_value = None THEN [obj |-> d, err |-> ""]
    ELSE IF new_dt_value[1] = "str" /\ strptime(new_dt_value[2])
         THEN LET s == new_dt_value[2]
                  mlen == MonthLen(s, 6)
                  dpos == 6 + mlen + 1
                  parsed == <<Number(s, 1, 4), Number(s, 6, mlen),
                              Number(s, dpos, DayLen(s, dpos))>>
              IN  [obj |-> [d EXCEPT !._value = PyStr(strftime(parsed))], err |-> ""]
         ELSE [obj |-> d, err |-> "ValueError"]

\* The value setter of a DateSelector: the object it leaves and the error.
DateSelector_value_set(d, new_dt_value) ==
    IF new_dt_value = None THEN [obj |-> d, err |-> ""]
    ELSE IF new_dt_value[1] = "str" /\ strptime(new_dt_value[2])
         THEN [obj |-> [d EXCEPT !._value = new_dt_value], err |-> ""]
         ELSE [obj |-> d, err |-> "ValueError"]

(***************************************************************************)
(* class Select                                                            *)
(***************************************************************************)
\* A reset that clears the reference and the flags of the given options
\* only, not the sentinel's.
Select_reset_given_only(sel) ==
    [sel EXCEPT !._options = [i \in DOMAIN @ |->
                                 IF i = 1 THEN @[i] ELSE [@[i] EXCEPT !.is_selected = FALSE]],
                !._value = NoneRef]

\* A reset that clears the flags and keeps the selected reference.
Select_reset_keepref(sel) ==
    [sel EXCEPT !._options = [i \in DOMAIN @ |-> [@[i] EXCEPT !.is_selected = FALSE]]]

\* Select.reset
Select_reset(sel) ==
    [sel EXCEPT !._options = [i \in DOMAIN @ |-> [@[i] EXCEPT !.is_selected = FALSE]],
                !._value = NoneRef]

\* The last matching option instead of the first.
LastMatch(options, opt_val) ==
    Max({i \in DOMAIN options : str(options[i].value) = str(opt_val)})

\* The index of the option the setter's loop stops at: the first, in list
\* order, whose value is opt_val under str().
FirstMatch(options, opt_val) ==
    Min({i \in DOMAIN options : str(options[i].value) = str(opt_val)})

\* A setter that does not reset the selection before it scans.
Select_value_set_noreset(sel, opt_val) ==
    IF opt_val = None THEN [obj |-> sel, err |-> ""]
    ELSE LET found == {i \in DOMAIN sel._options : str(sel._options[i].value) = str(opt_val)}
         IN  IF found = {} THEN [obj |-> sel, err |-> "ValueError"]
             ELSE [obj |-> [sel EXCEPT !._options[Min(found)].is_selected = TRUE,
                                       !._value = sel._options[Min(found)].id],
                   err |-> ""]

\* A setter without the test for None.
Select_value_set_nonull(sel, opt_val) ==
    LET r == Select_reset(sel)
        found == {i \in DOMAIN r._options : str(r._options[i].value) = str(opt_val)}
    IN  IF found = {} THEN [obj |-> r, err |-> "ValueError"]
        ELSE [obj |-> [r EXCEPT !._options[Min(found)].is_selected = TRUE,
                                !._value = r._options[Min(found)].id],
              err |-> ""]

\* A setter that puts the previous selection back when it finds no match.
Select_value_set_restore(sel, opt_val) ==
    IF opt_val = None THEN [obj |-> sel, err |-> ""]
    ELSE LET r == Select_reset(sel)
             found == {i \in DOMAIN r._options : str(r._options[i].value) = str(opt_val)}
         IN  IF found = {} THEN [obj |-> sel, err |-> "ValueError"]
             ELSE [obj |-> [r EXCEPT !._options[Min(found)].is_selected = TRUE,
                                     !._value = r._options[Min(found)].id],
                   err |-> ""]

\* The value setter of a Select: the object it leaves and the error.
Select_value_set(sel, opt_val) ==
    IF opt_val = None THEN [obj |-> sel, err |-> ""]
    ELSE LET r == Select_reset(sel)
             found == {i \in DOMAIN r._options : str(r._options[i].value) = str(opt_val)}
         IN  IF found = {} THEN [obj |-> r, err |-> "ValueError"]
             ELSE LET i == FirstMatch(r._options, opt_val)
                  IN  [obj |-> [r EXCEPT !._options[i].is_selected = TRUE,
                                         !._value = r._options[i].id],
                       err |-> ""]

\* The value getter of a Select, in heap h.
Select_value(h, sel) ==
    IF sel._value # NoneRef THEN Deref(h, sel._value).value ELSE None

\* A constructor that puts the sentinel after the given options.
Select_default_last(oid, name, label_name, options, value) ==
    LET opts == [i \in 1..Len(options) |-> Option(10 * oid + i, options[i], FALSE)]
        default_option == Option(10 * oid, default_value, FALSE)
        self == [kind       |-> "select",
                 name       |-> name,
                 label_name |-> label_name,
                 _value     |-> NoneRef,
                 _options   |-> opts \o <<default_option>>]
    IN  Select_value_set(Select_reset(self),
                         IF Truthy(value) THEN value ELSE default_option.value)

\* Select.__init__(name, label_name, options, value) of the object with
\* identity oid: the object it builds and the error of its last statement.
Select(oid, name, label_name, options, value) ==
    LET opts == [i \in 1..Len(options) |-> Option(10 * oid + i, options[i], FALSE)]
        default_option == Option(10 * oid, default_value, FALSE)
        self == [kind       |-> "select",
                 name       |-> name,
                 label_name |-> label_name,
                 _value     |-> NoneRef,
                 _options   |-> <<default_option>> \o opts]
    IN  Select_value_set(Select_reset(self),
                         IF Truthy(value) THEN value ELSE default_option.value)

\* Select.rename
Select_rename(sel, new_label_name, new_name) ==
    [sel EXCEPT !.label_name = new_label_name, !.name = new_name]

(***************************************************************************)
(* Inputs.                                                                 *)
(***************************************************************************)
OptionValues == {PyStr("a"), PyStr("b"), default_value, PyInt("1")}

OptionLists == UNION {[1..n -> OptionValues] : n \in 0..MaxOptions}

\* Values given to a Select: present and absent ones, of both types.
SelectInputs ==
    {None, PyStr("a"), PyStr("b"), PyStr("ANY"), PyStr("1"), PyInt("1"),
     PyStr("z"), PyStr("")}

\* Values given to a DateSelector: dates in and out of the format.
DateInputs ==
    {None, PyStr("2024-02-29"), PyStr("2023-02-29"), PyStr("2024-1-5"),
     PyStr("2024-01- 5"), PyStr("0000-01-01"), PyStr("2024-13-01"),
     PyStr("2024-01-32"), PyStr("2024-12-31x"), PyStr("2024/01/05"),
     PyStr("ANY"), PyStr(""), PyInt("1")}

\* The days on which a DateSelector is constructed.
TodayDates == {<<2026, 11, 1>>, <<2024, 2, 29>>}

\* Arguments of Select.rename: a label and a name.
RenameInputs == {<<"A", PyStr("a")>>, <<"B", PyStr("b")>>, <<"", None>>}

(***************************************************************************)
(* Operations on the fields of the heap.                                   *)
(***************************************************************************)
Selects == {o \in DOMAIN heap : heap[o].kind = "select"}

Dates == {o \in DOMAIN heap : heap[o].kind = "date"}

\* field.value = v on a Select
SelectSetValue(o, v) ==
    /\ o \in Selects
    /\ \E r \in {Select_value_set(heap[o], v)} :
           /\ heap' = [heap EXCEPT ![o] = r.obj]
           /\ last' = [NoLast EXCEPT !.op = "Select.value", !.obj = o,
                                     !.arg = v, !.err = r.err]
    /\ UNCHANGED _fields

\* field.reset()
SelectReset(o) ==
    /\ o \in Selects
    /\ heap' = [heap EXCEPT ![o] = Select_reset(heap[o])]
    /\ last' = [NoLast EXCEPT !.op = "Select.reset", !.obj = o]
    /\ UNCHANGED _fields

\* field.rename(new_label_name, new_name)
SelectRename(o, new_label_name, new_name) ==
    /\ o \in Selects
    /\ heap' = [heap EXCEPT ![o] = Select_rename(heap[o], new_label_name, new_name)]
    /\ last' = [NoLast EXCEPT !.op = "Select.rename", !.obj = o,
                              !.arg = new_name, !.label = new_label_name]
    /\ UNCHANGED _fields

\* field.value = v on a DateSelector
DateSetValue(o, v) ==
    /\ o \in Dates
    /\ \E r \in {DateSelector_value_set(heap[o], v)} :
           /\ heap' = [heap EXCEPT ![o] = r.obj]
           /\ last' = [NoLast EXCEPT !.op = "DateSelector.value", !.obj = o,
                                     !.arg = v, !.err = r.err]
    /\ UNCHANGED _fields

(***************************************************************************)
(* A Select on its own: constructed from any option list and any initial   *)
(* value the constructor accepts, then set, reset and renamed.             *)
(***************************************************************************)
InitSelect ==
    /\ \E options \in OptionLists, value \in SelectInputs :
         LET r == Select(1, PyStr("a"), "A", options, value)
         IN  /\ r.err = ""
             /\ heap = [o \in {1} |-> r.obj]
             /\ last = [NoLast EXCEPT !.values = options, !.arg = value]
    /\ _fields = <<>>

NextSelect ==
    \/ \E v \in SelectInputs : SelectSetValue(1, v)
    \/ SelectReset(1)
    \/ \E a \in RenameInputs : SelectRename(1, a[1], a[2])

SpecSelect == InitSelect /\ [][NextSelect]_vars

(***************************************************************************)
(* A DateSelector on its own: constructed with or without a value, then    *)
(* set.                                                                    *)
(***************************************************************************)
InitDate ==
    /\ \E label_name \in {"", "Day"}, value \in DateInputs, today \in TodayDates :
         heap = [o \in {1} |-> DateSelector(PyStr("start_date"), label_name, value, today)]
    /\ _fields = <<>>
    /\ last = NoLast

NextDate == \E v \in DateInputs : DateSetValue(1, v)

SpecDate == InitDate /\ [][NextDate]_vars

(***************************************************************************)
(* class FilterForm.  The form's state is its list _fields of field        *)
(* objects; the operators take the heap h and the list.                    *)
(***************************************************************************)
\* The value setter and getter of a field of either class.
FormField_value_set(field, new_value) ==
    IF field.kind = "date" THEN DateSelector_value_set(field, new_value)
    ELSE Select_value_set(field, new_value)

FormField_value(h, field) ==
    IF field.kind = "date" THEN DateSelector_value(field)
    ELSE Select_value(h, field)

\* FilterForm.field_dict: { field.name : field for field in self._fields };
\* a later field replaces an earlier one of the same name.
field_dict(h, fields) ==
    [n \in {h[fields[i]].name : i \in DOMAIN fields} |->
        fields[Max({i \in DOMAIN fields : h[fields[i]].name = n})]]

\* FilterForm.get_field: the field, or KeyError.
get_field(h, fields, field_name) ==
    IF field_name \in DOMAIN field_dict(h, fields)
    THEN [field |-> field_dict(h, fields)[field_name], err |-> ""]
    ELSE [field |-> NoneRef, err |-> "KeyError"]

\* FilterForm.__setitem__: the heap it leaves and the error.
setitem(h, fields, field_name, field_value) ==
    LET f == get_field(h, fields, field_name)
    IN  IF f.err # "" THEN [heap |-> h, err |-> f.err]
        ELSE LET r == FormField_value_set(h[f.field], field_value)
             IN  [heap |-> [h EXCEPT ![f.field] = r.obj], err |-> r.err]

\* FilterForm.__getitem__: the value, or KeyError.
getitem(h, fields, field_name) ==
    LET f == get_field(h, fields, field_name)
    IN  IF f.err # "" THEN [value |-> None, err |-> f.err]
        ELSE [value |-> FormField_value(h, h[f.field]), err |-> ""]

\* An update that skips unknown keys whatever the flag is.
RECURSIVE update_always_ignore(_, _, _, _)
update_always_ignore(h, fields, field_values, is_ignore_unknown_fields) ==
    IF field_values = <<>> THEN [heap |-> h, err |-> "", key |-> None]
    ELSE LET r == setitem(h, fields, field_values[1][1], field_values[1][2])
         IN  IF r.err = "KeyError"
             THEN update_always_ignore(r.heap, fields, Tail(field_values),
                                       is_ignore_unknown_fields)
             ELSE IF r.err # ""
             THEN [heap |-> r.heap, err |-> r.err, key |-> None]
             ELSE update_always_ignore(r.heap, fields, Tail(field_values),
                                       is_ignore_unknown_fields)

\* An update that catches every exception of a set, not only KeyError.
RECURSIVE update_catch_all(_, _, _, _)
update_catch_all(h, fields, field_values, is_ignore_unknown_fields) ==
    IF field_values = <<>> THEN [heap |-> h, err |-> "", key |-> None]
    ELSE LET r == setitem(h, fields, field_values[1][1], field_values[1][2])
         IN  IF r.err # ""
             THEN IF is_ignore_unknown_fields = FALSE
                  THEN [heap |-> r.heap, err |-> "KeyError", key |-> field_values[1][1]]
                  ELSE update_catch_all(r.heap, fields, Tail(field_values),
                                        is_ignore_unknown_fields)
             ELSE update_catch_all(r.heap, fields, Tail(field_values),
                                   is_ignore_unknown_fields)

\* FilterForm.update: field_values is the sequence of the mapping's items in
\* iteration order.  The heap it leaves, the error and the key a KeyError
\* names.
RECURSIVE update(_, _, _, _)
update(h, fields, field_values, is_ignore_unknown_fields) ==
    IF field_values = <<>> THEN [heap |-> h, err |-> "", key |-> None]
    ELSE LET field_name == field_values[1][1]
             field_value == field_values[1][2]
             r == setitem(h, fields, field_name, field_value)
         IN  IF r.err = "KeyError"
             THEN IF is_ignore_unknown_fields = FALSE
                  THEN [heap |-> r.heap, err |-> "KeyError", key |-> field_name]
                  ELSE update(r.heap, fields, Tail(field_values),
                              is_ignore_unknown_fields)
             ELSE IF r.err # ""
             THEN [heap |-> r.heap, err |-> r.err, key |-> None]
             ELSE update(r.heap, fields, Tail(field_values),
                         is_ignore_unknown_fields)

\* A set_field that appends the field when no field has its name.
set_field_insert(h, fields, field) ==
    IF h[field].name = None THEN [fields |-> fields, err |-> "ValueError"]
    ELSE LET found == {i \in DOMAIN fields : h[fields[i]].name = h[field].name}
         IN  IF found = {} THEN [fields |-> Append(fields, field), err |-> ""]
             ELSE [fields |-> [fields EXCEPT ![Min(found)] = field], err |-> ""]

\* FilterForm.set_field: the list it leaves and the error.
set_field(h, fields, field) ==
    IF h[field].name = None THEN [fields |-> fields, err |-> "ValueError"]
    ELSE LET found == {i \in DOMAIN fields : h[fields[i]].name = h[field].name}
         IN  IF found = {} THEN [fields |-> fields, err |-> "KeyError"]
             ELSE [fields |-> [fields EXCEPT ![Min(found)] = field], err |-> ""]

(***************************************************************************)
(* Rendering.  format(x) is the text an f-string puts for {x}.             *)
(***************************************************************************)
format(x) == str(x)[2]

\* Label(content).render()
Label_render(content) == "<label>" \o content \o "</label>"

\* Option.render
Option_render(opt) ==
    (IF opt.is_selected
     THEN "<option value='" \o format(opt.value) \o "' selected>" \o format(opt.value) \o "</option>"
     ELSE "<option value='" \o format(opt.value) \o "'>" \o format(opt.value) \o "</option>")
    \o (IF opt.value = default_value THEN "<option disabled>---</option>" ELSE "")

\* DateSelector.render
DateSelector_render(d) ==
    "<input class='date-selector'type='date' name='" \o format(d.name)
    \o "' value='" \o format(DateSelector_value(d)) \o "' id='datepicker'>"
    \o "<script>flatpickr(\".date-selector\", {dateFormat: \"Y-m-d\"});</script>"

\* The loop of Select.render over the options.
RECURSIVE options_html(_)
options_html(options) ==
    IF options = <<>> THEN ""
    ELSE Option_render(Head(options)) \o options_html(Tail(options))

\* Select.render
Select_render(sel) ==
    "<select name='" \o format(sel.name) \o "'>" \o options_html(sel._options) \o "</select>"

\* field.render() of a field of either class.
FormField_render(field) ==
    IF field.kind = "date" THEN DateSelector_render(field) ELSE Select_render(field)

\* The attributes of the form that no operation assigns.
action == "/dashboard/"

request_method == "GET"

cgi_method == "jobs"

\* FilterForm.render_submit_button
render_submit_button ==
    "<input type='submit' value='Filter' style='background: #E1703D; border-radius: 5px; padding: 5px; color: white; font-weight: bold; font-size: 1em; border: 0; cursor: pointer'>"

\* The loop of FilterForm.render over a list of fields.
RECURSIVE fields_html(_, _)
fields_html(h, fields) ==
    IF fields = <<>> THEN ""
    ELSE Label_render(h[Head(fields)].label_name \o ": " \o FormField_render(h[Head(fields)]))
         \o fields_html(h, Tail(fields))

\* The fields of field_dict in the order of its keys: a name stands where it
\* first occurs in the list, with the last field of that name.
FieldDictValues(h, fields) ==
    LET firsts == {i \in DOMAIN fields :
                      \A j \in 1..(i - 1) : h[fields[j]].name # h[fields[i]].name}
        nth[n \in 0..Cardinality(firsts)] ==
            IF n = 0 THEN <<>>
            ELSE LET i == CHOOSE i \in firsts :
                              Cardinality({j \in firsts : j < i}) = n - 1
                 IN  Append(nth[n - 1], field_dict(h, fields)[h[fields[i]].name])
    IN  nth[Cardinality(firsts)]

\* A render that goes through the fields of field_dict.
FilterForm_render_field_dict(h, fields) ==
    "<form action='" \o action \o "' method='" \o request_method \o "'>"
    \o "<input type='hidden' name='method' value='" \o cgi_method \o "'>"
    \o fields_html(h, FieldDictValues(h, fields))
    \o render_submit_button
    \o "</form>"

\* FilterForm.render
FilterForm_render(h, fields) ==
    "<form action='" \o action \o "' method='" \o request_method \o "'>"
    \o "<input type='hidden' name='method' value='" \o cgi_method \o "'>"
    \o fields_html(h, fields)
    \o render_submit_button
    \o "</form>"

(***************************************************************************)
(* Inputs of the form.                                                     *)
(***************************************************************************)
\* Keys of an update: names of fields and a name no field has.
Keys == {PyStr("a"), PyStr("d"), PyStr("zz")}

\* Values of an update: absent, an option of the selects, a date.
FormValues == {None, PyStr("a"), PyStr("2024-02-29")}

\* The mappings given to update: their items in iteration order, no key twice.
UpdateInputs ==
    {m \in UNION {[1..n -> Keys \X FormValues] : n \in 0..MaxUpdateLen} :
        \A i, j \in DOMAIN m : i # j => m[i][1] # m[j][1]}

\* Arguments of Select.rename on a field of the form.
FormRenameInputs == {<<"A", PyStr("a")>>, <<"D", PyStr("d")>>, <<"Z", PyStr("zz")>>}

(***************************************************************************)
(* Operations on the form.                                                 *)
(***************************************************************************)
\* form.update(field_values, is_ignore_unknown_fields)
FormUpdate(field_values, is_ignore_unknown_fields) ==
    /\ \E r \in {update(heap, _fields, field_values, is_ignore_unknown_fields)} :
           /\ heap' = r.heap
           /\ last' = [NoLast EXCEPT !.op = "update", !.values = field_values,
                                     !.ignore = is_ignore_unknown_fields,
                                     !.err = r.err, !.key = r.key]
    /\ UNCHANGED _fields

\* form[field_name] = field_value
FormSetItem(field_name, field_value) ==
    /\ \E r \in {setitem(heap, _fields, field_name, field_value)} :
           /\ heap' = r.heap
           /\ last' = [NoLast EXCEPT !.op = "setitem", !.key = field_name,
                                     !.arg = field_value, !.err = r.err]
    /\ UNCHANGED _fields

\* form.render()
FormRender ==
    /\ last' = [NoLast EXCEPT !.op = "render",
                              !.result = PyStr(FilterForm_render(heap, _fields))]
    /\ UNCHANGED <<heap, _fields>>

\* form.set_field(field)
FormSetField(field) ==
    /\ \E r \in {set_field(heap, _fields, field)} :
           /\ _fields' = r.fields
           /\ last' = [NoLast EXCEPT !.op = "set_field", !.obj = field,
                                     !.key = heap[field].name, !.err = r.err]
    /\ UNCHANGED heap

(***************************************************************************)
(* A form: a DateSelector and Selects are constructed, a FilterForm is     *)
(* built on a list of them with distinct names, and the form and the       *)
(* fields are then operated on.  Object 3 is a field the caller holds; it  *)
(* is in the list or not.                                                  *)
(***************************************************************************)
InitFieldLists == {<<1, 2>>, <<1, 2, 3>>}

Init ==
    /\ \E name3 \in {PyStr("a"), None} :
         heap = [o \in {1, 2, 3} |->
                   CASE o = 1 -> DateSelector(PyStr("d"), "", None, <<2026, 11, 1>>)
                     [] o = 2 -> Select(2, PyStr("a"), "A", <<PyStr("a"), PyStr("b")>>, None).obj
                     [] o = 3 -> Select(3, name3, "C", <<PyStr("a"), PyStr("a")>>, PyStr("a")).obj]
    /\ _fields \in InitFieldLists
    /\ \A i, j \in DOMAIN _fields : i # j => heap[_fields[i]].name # heap[_fields[j]].name
    /\ last = NoLast

Next ==
    \/ \E k \in Keys, v \in FormValues : FormSetItem(k, v)
    \/ \E o \in DOMAIN heap : FormSetField(o)
    \/ \E o \in DOMAIN heap, a \in FormRenameInputs : SelectRename(o, a[1], a[2])
    \/ \E o \in DOMAIN heap, v \in FormValues : SelectSetValue(o, v)
    \/ \E o \in DOMAIN heap, v \in FormValues : DateSetValue(o, v)
    \/ FormRender

Spec == Init /\ [][Next]_vars

(***************************************************************************)
(* The form of the DateSelector and the first Select, updated from         *)
(* mappings of request parameters.                                         *)
(***************************************************************************)
InitUpdate == Init /\ _fields = <<1, 2>> /\ heap[3].name = None

NextUpdate ==
    \/ \E m \in UpdateInputs, ignore \in BOOLEAN : FormUpdate(m, ignore)
    \/ \E k \in Keys, v \in FormValues : FormSetItem(k, v)

SpecUpdate == InitUpdate /\ [][NextUpdate]_vars

(***************************************************************************)
(* modules/dashboard/utils.py.  A dict is <<"dict", items>> with items the *)
(* sequence of its <<key, value>> pairs in insertion order, a list is      *)
(* <<"list", elements>>.                                                   *)
(***************************************************************************)
PyDict(items) == <<"dict", items>>

PyList(elements) == <<"list", elements>>

\* set(d.keys())
KeysOf(items) == {items[i][1] : i \in DOMAIN items}

\* d.get(key): the value of the key, None when the dict has no such key.
dict_get(items, key) ==
    IF \E i \in DOMAIN items : items[i][1] = key
    THEN items[CHOOSE i \in DOMAIN items : items[i][1] = key][2]
    ELSE None

\* d[key] = value: the value of an existing key is replaced where it is, a
\* new key is added at the end.
dict_set(items, key, value) ==
    IF \E i \in DOMAIN items : items[i][1] = key
    THEN [i \in DOMAIN items |-> IF items[i][1] = key THEN <<key, value>> ELSE items[i]]
    ELSE Append(items, <<key, value>>)

\* A loop that leaves out the keys the parameters do not have.
RECURSIVE parse_loop_skip_missing(_, _, _, _)
parse_loop_skip_missing(items, keys, default, result) ==
    IF keys = <<>> THEN result
    ELSE LET key == Head(keys)
             value == dict_get(items, key)
         IN  parse_loop_skip_missing(items, Tail(keys), default,
                 IF value = None THEN result
                 ELSE dict_set(result, key,
                               IF Truthy(value) /\ value # default
                               THEN str(value) ELSE None))

\* A loop that passes the default value on as a string.
RECURSIVE parse_loop_keep_default(_, _, _, _)
parse_loop_keep_default(items, keys, default, result) ==
    IF keys = <<>> THEN result
    ELSE LET key == Head(keys)
             value == dict_get(items, key)
         IN  parse_loop_keep_default(items, Tail(keys), default,
                 dict_set(result, key,
                          IF Truthy(value) THEN str(value) ELSE None))

\* The loop of parse_cgi_value over the keys, result being the dict built
\* so far.
RECURSIVE parse_loop(_, _, _, _)
parse_loop(items, keys, default, result) ==
    IF keys = <<>> THEN result
    ELSE LET key == Head(keys)
             value == dict_get(items, key)
         IN  parse_loop(items, Tail(keys), default,
                 dict_set(result, key,
                          IF Truthy(value) /\ value # default
                          THEN str(value) ELSE None))

\* parse_cgi_value(cgiValues, keys, default_value): the dict it returns and
\* the error.
parse_cgi_value(cgiValues, keys, default) ==
    IF cgiValues[1] # "dict" THEN [result |-> None, err |-> "ValueError"]
    ELSE IF keys[1] # "list" THEN [result |-> None, err |-> "ValueError"]
    ELSE [result |-> PyDict(parse_loop(cgiValues[2], keys[2], default, <<>>)),
          err |-> ""]

(***************************************************************************)
(* A request: its parameters are passed through parse_cgi_value with the   *)
(* names of the form's fields as keys and the default of the signature,    *)
(* and the dict it returns is given to update.                             *)
(***************************************************************************)
RequestKeys == PyList(<<PyStr("a"), PyStr("d")>>)

\* What a request sends under a name, None for a name it does not send.
RequestValues == {None, PyStr(""), default_value, PyStr("a"), PyStr("2024-02-29")}

\* The parameter dicts of a request.
RequestInputs ==
    {PyDict(SelectSeq(<<<<PyStr("a"), va>>, <<PyStr("d"), vd>>>>,
                      LAMBDA item : item[2] # None)) :
        va \in RequestValues, vd \in RequestValues}

\* form.update(parse_cgi_value(cgiValues, keys))
FormRequest(cgiValues) ==
    /\ \E n \in {parse_cgi_value(cgiValues, RequestKeys, default_value)} :
         IF n.err # ""
         THEN /\ heap' = heap
              /\ last' = [NoLast EXCEPT !.op = "request", !.params = cgiValues,
                                        !.err = n.err]
         ELSE \E r \in {update(heap, _fields, n.result[2], TRUE)} :
                /\ heap' = r.heap
                /\ last' = [NoLast EXCEPT !.op = "request", !.params = cgiValues,
                                          !.values = n.result[2],
                                          !.err = r.err, !.key = r.key]
    /\ UNCHANGED _fields

NextRequest ==
    \/ \E cgiValues \in RequestInputs : FormRequest(cgiValues)
    \/ \E k \in Keys, v \in FormValues : FormSetItem(k, v)

SpecRequest == InitUpdate /\ [][NextRequest]_vars

\* Names and values of request parameters.
ParamNames == {PyStr("k"), PyStr("m")}

ParamValues == {PyStr(""), PyStr("ANY"), PyStr("a"), PyInt("1")}

\* The parameter dicts: any values for any of the names, in any order; and
\* an argument that is no dict.
ParamInputs ==
    {PyDict(items) : items \in
        {m \in UNION {[1..n -> ParamNames \X ParamValues] : n \in 0..Cardinality(ParamNames)} :
            \A i, j \in DOMAIN m : i # j => m[i][1] # m[j][1]}}
    \cup {None}

\* The key lists, a key possibly twice; and an argument that is no list.
KeyInputs ==
    {PyList(keys) : keys \in UNION {[1..n -> ParamNames] : n \in 0..MaxKeys}}
    \cup {PyStr("k")}

DefaultInputs == {default_value, PyStr("a")}

\* A call of parse_cgi_value is drawn with its arguments, then made.
InitParams ==
    /\ heap = <<>>
    /\ _fields = <<>>
    /\ \E cgiValues \in ParamInputs, keys \in KeyInputs, default \in DefaultInputs :
         last = [NoLast EXCEPT !.op = "call", !.params = cgiValues,
                               !.values = keys, !.arg = default]

ParseCgiValue ==
    /\ last.op = "call"
    /\ \E r \in {parse_cgi_value(last.params, last.values, last.arg)} :
           last' = [last EXCEPT !.op = "parse_cgi_value",
                                !.result = r.result, !.err = r.err]
    /\ UNCHANGED <<heap, _fields>>

NextParams == ParseCgiValue

SpecParams == InitParams /\ [][NextParams]_vars

(***************************************************************************)
(* extract_rows_unique_value.                                              *)
(***************************************************************************)
\* The number an int's digits write.
RECURSIVE IntVal(_)
IntVal(digits) ==
    IF digits = "" THEN 0
    ELSE 10 * IntVal(SubSeq(digits, 1, Len(digits) - 1))
         + DigitVal(Char(digits, Len(digits)))

Letters == "abcdefghijklmnopqrstuvwxyz"

\* The rank of a letter in the order of the characters.
Rank(c) == CHOOSE i \in 1..Len(Letters) : Char(Letters, i) = c

\* s < t for strings of letters: the order of the first characters that
\* differ, a proper prefix first.
RECURSIVE StrLess(_, _)
StrLess(s, t) ==
    IF t = "" THEN FALSE
    ELSE IF s = "" THEN TRUE
    ELSE IF Char(s, 1) = Char(t, 1)
         THEN StrLess(SubSeq(s, 2, Len(s)), SubSeq(t, 2, Len(t)))
         ELSE Rank(Char(s, 1)) < Rank(Char(t, 1))

\* x < y for two ints or two strs.
PyLess(x, y) ==
    IF x[1] = "int" THEN IntVal(x[2]) < IntVal(y[2]) ELSE StrLess(x[2], y[2])

\* A sort into descending order.
RECURSIVE sorted_descending(_)
sorted_descending(S) ==
    IF S = {} THEN <<>>
    ELSE LET x == CHOOSE x \in S : \A y \in S \ {x} : PyLess(y, x)
         IN  <<x>> \o sorted_descending(S \ {x})

\* sorted(...) of the elements of a set of values of one type.
RECURSIVE sorted(_)
sorted(S) ==
    IF S = {} THEN <<>>
    ELSE LET x == CHOOSE x \in S : \A y \in S \ {x} : PyLess(x, y)
         IN  <<x>> \o sorted(S \ {x})

\* The for loop over the rows; unique_values is the defaultdict(set) built
\* so far, its items being <<key, set>>.
RECURSIVE rows_loop(_, _, _)
rows_loop(rows, keys, unique_values) ==
    IF rows = <<>> THEN [unique_values |-> unique_values, err |-> ""]
    ELSE LET row == Head(rows)
         IN  IF row[1] # "dict" \/ KeysOf(row[2]) # KeysOf(keys)
             THEN [unique_values |-> unique_values, err |-> "ValueError"]
             ELSE rows_loop(Tail(rows), keys,
                      [i \in DOMAIN keys |->
                          <<keys[i][1],
                            (IF i \in DOMAIN unique_values THEN unique_values[i][2] ELSE {})
                            \cup {dict_get(row[2], keys[i][1])}>>])

\* extract_rows_unique_value(rows): the dict it returns and the error.
extract_rows_unique_value(rows) ==
    IF rows[1] # "list" THEN [result |-> None, err |-> "ValueError"]
    ELSE IF Len(rows[2]) = 0 THEN [result |-> PyDict(<<>>), err |-> ""]
    ELSE IF rows[2][1][1] # "dict" THEN [result |-> None, err |-> "ValueError"]
    ELSE LET r == rows_loop(rows[2], rows[2][1][2], <<>>)
         IN  IF r.err # "" THEN [result |-> None, err |-> r.err]
             ELSE [result |-> PyDict([i \in DOMAIN r.unique_values |->
                                        <<r.unique_values[i][1],
                                          PyList(sorted({x \in r.unique_values[i][2] : x # None}))>>]),
                   err |-> ""]

\* The cells of the columns of a result set: a column holds values of one
\* type, or None.
ColumnValues ==
    [a |-> {PyInt("1"), PyInt("2"), None}, b |-> {PyStr("x"), PyStr("y"), None}]

\* The records over any of the columns, and an element that is no record.
RowInputs ==
    {PyDict(<<>>)}
    \cup {PyDict(<<<<PyStr("a"), x>>>>) : x \in ColumnValues.a}
    \cup {PyDict(<<<<PyStr("b"), y>>>>) : y \in ColumnValues.b}
    \cup {PyDict(<<<<PyStr("a"), x>>, <<PyStr("b"), y>>>>) : x \in ColumnValues.a, y \in ColumnValues.b}
    \cup {None}

\* The result sets, and an argument that is no list.
RowsInputs ==
    {PyList(rows) : rows \in UNION {[1..n -> RowInputs] : n \in 0..MaxRows}}
    \cup {None}

\* A call of extract_rows_unique_value is drawn with its argument, then made.
InitRows ==
    /\ heap = <<>>
    /\ _fields = <<>>
    /\ \E rows \in RowsInputs : last = [NoLast EXCEPT !.op = "call", !.params = rows]

ExtractRowsUniqueValue ==
    /\ last.op = "call"
    /\ \E r \in {extract_rows_unique_value(last.params)} :
           last' = [last EXCEPT !.op = "extract_rows_unique_value",
                                !.result = r.result, !.err = r.err]
    /\ UNCHANGED <<heap, _fields>>

NextRows == ExtractRowsUniqueValue

SpecRows == InitRows /\ [][NextRows]_vars

(***************************************************************************)
(* Properties of a Select.                                                 *)
(***************************************************************************)
\* The indices of the options of Select o that are flagged is_selected.
Flagged(o) == {i \in DOMAIN heap[o]._options : heap[o]._options[i].is_selected}

\* The indices of the options of Select o whose value is v under str().
Matching(o, v) ==
    {i \in DOMAIN heap[o]._options : str(heap[o]._options[i].value) = str(v)}

\* C1: in every state reachable from constructing a Select and setting,
\* resetting and renaming it, at most one of its options is selected.
C1_SingleSelection == \A o \in Selects : Cardinality(Flagged(o)) <= 1

\* The setter has selected one of several options that carry the same value.
C1_Witness ==
    /\ last.op = "Select.value"
    /\ Cardinality(Matching(1, last.arg)) >= 2
    /\ Cardinality(Flagged(1)) = 1

\* C2: after a set to a non-null value that no option carries, the error is
\* ValueError, no option is selected and the getter returns None.
C2_FailedSetDeselects ==
    (/\ last.op = "Select.value"
     /\ last.arg # None
     /\ Matching(last.obj, last.arg) = {})
    => /\ last.err = "ValueError"
       /\ Flagged(last.obj) = {}
       /\ Select_value(heap, heap[last.obj]) = None

\* A set has failed on a Select that has options besides the sentinel.
C2_Witness ==
    /\ last.op = "Select.value"
    /\ last.err = "ValueError"
    /\ last.arg = PyStr("z")
    /\ Len(heap[1]._options) > 1

\* C3: the selected reference of a Select is None exactly when none of its
\* options is flagged; otherwise it is the one flagged option, an option of
\* its own list, and the getter returns that option's value.
C3_SelectionCoherence ==
    \A o \in Selects :
        LET sel == heap[o]
        IN  /\ (sel._value = NoneRef) <=> (Flagged(o) = {})
            /\ sel._value # NoneRef =>
                   \E i \in DOMAIN sel._options :
                       /\ Flagged(o) = {i}
                       /\ sel._options[i].id = sel._value
                       /\ Select_value(heap, sel) = sel._options[i].value
            /\ sel._value = NoneRef => Select_value(heap, sel) = None

\* A set has selected an option other than the sentinel.
C3_Witness ==
    /\ last.op = "Select.value"
    /\ heap[1]._value # NoneRef
    /\ Select_value(heap, heap[1]) = PyStr("b")

\* C10: after a successful set to a non-null target exactly one option is
\* selected, it is the first in list order whose value is the target under
\* str(), and the getter returns the target (under str()).
C10_FirstMatchSelected ==
    (/\ last.op = "Select.value"
     /\ last.arg # None
     /\ last.err = "")
    => \E i \in Matching(last.obj, last.arg) :
           /\ \A j \in Matching(last.obj, last.arg) : i <= j
           /\ Flagged(last.obj) = {i}
           /\ heap[last.obj]._value = heap[last.obj]._options[i].id
           /\ str(Select_value(heap, heap[last.obj])) = str(last.arg)

\* A set has succeeded on a Select in which two options carry the target.
C10_Witness ==
    /\ last.op = "Select.value"
    /\ last.err = ""
    /\ last.arg = PyStr("a")
    /\ Cardinality(Matching(1, last.arg)) = 2

(***************************************************************************)
(* Properties of a DateSelector.                                           *)
(***************************************************************************)
\* TRUE iff v is a string that parses under date_format.
ParsesAsDate(v) == v[1] = "str" /\ strptime(v[2])

\* C4: the value of a DateSelector is always a string that parses under
\* date_format (today's date, the construction default, is one).
C4_DateValueParses == \A o \in Dates : ParsesAsDate(DateSelector_value(heap[o]))

\* C5: a set to a string that does not parse raises ValueError and leaves
\* the value as it was.
C5_BadDateRejected ==
    [][(/\ last'.op = "DateSelector.value"
        /\ last'.arg[1] = "str"
        /\ ~strptime(last'.arg[2]))
       => /\ last'.err = "ValueError"
          /\ DateSelector_value(heap'[last'.obj]) = DateSelector_value(heap[last'.obj])]_vars

\* A set to a date the calendar does not have has been rejected.
C5_Witness ==
    /\ last.op = "DateSelector.value"
    /\ last.arg = PyStr("2023-02-29")
    /\ last.err = "ValueError"
    /\ DateSelector_value(heap[1]) = PyStr("2024-1-5")

(***************************************************************************)
(* Properties of FilterForm.update.                                        *)
(***************************************************************************)
\* The names of the fields of the form.
FieldNames == {heap[_fields[i]].name : i \in DOMAIN _fields}

\* The field a name denotes: the one get_field returns.
FieldNamed(n) == get_field(heap, _fields, n).field

\* The items of mapping m whose key names a field.
RECURSIVE KnownItems(_)
KnownItems(m) ==
    IF m = <<>> THEN <<>>
    ELSE IF m[1][1] \in FieldNames THEN <<m[1]>> \o KnownItems(Tail(m))
    ELSE KnownItems(Tail(m))

\* The positions of mapping m whose key names no field.
UnknownAt(m) == {i \in DOMAIN m : m[i][1] \notin FieldNames}

\* TRUE iff field f rejects value v: a date that does not parse, a value
\* no option of the select carries.
Rejects(f, v) ==
    /\ v # None
    /\ IF heap[f].kind = "date" THEN ~ParsesAsDate(v) ELSE Matching(f, v) = {}

\* The positions of mapping m whose key names a field that rejects the value.
RejectedAt(m) ==
    {i \in DOMAIN m : m[i][1] \in FieldNames /\ Rejects(FieldNamed(m[i][1]), m[i][2])}

\* C6: an update with ignoreUnknown = true raises no KeyError and leaves the
\* fields as the same update without the unknown keys does; with
\* ignoreUnknown = false, an update that reaches an unknown key raises
\* KeyError naming that key.
C6_UnknownKey ==
    [][last'.op = "update" =>
         \A m \in {last'.values} : \A unknown \in {UnknownAt(m)} :
             /\ last'.ignore =>
                   /\ last'.err # "KeyError"
                   /\ heap' = update(heap, _fields, KnownItems(m), TRUE).heap
                   /\ (unknown = DOMAIN m => heap' = heap)
             /\ (~last'.ignore /\ unknown # {}) =>
                   \A u \in {Min(unknown)} :
                       (\A i \in 1..(u - 1) : i \notin RejectedAt(m)) =>
                           /\ last'.err = "KeyError"
                           /\ last'.key = m[u][1]
                           /\ heap' = update(heap, _fields, SubSeq(m, 1, u - 1), FALSE).heap
      ]_vars

\* An update has skipped an unknown key and applied the known key after it.
C6_Witness ==
    /\ last.op = "update"
    /\ last.ignore
    /\ last.err = ""
    /\ last.values = <<<<PyStr("zz"), PyStr("a")>>, <<PyStr("d"), PyStr("2024-02-29")>>>>
    /\ getitem(heap, _fields, PyStr("d")).value = PyStr("2024-02-29")

\* C7: an update whose first rejected value is not preceded by an abort on
\* an unknown key raises that field's ValueError, whatever ignoreUnknown is;
\* the fields named by earlier keys then hold the values given for them and
\* the fields named by later keys are as they were.
C7_ValidationAborts ==
    [][last'.op = "update" =>
         \A m \in {last'.values} : \A bad \in {RejectedAt(m)} :
             bad # {} =>
                 \A first \in {Min(bad)} :
                     (last'.ignore \/ \A u \in UnknownAt(m) : u > first)
                     => /\ last'.err = "ValueError"
                        /\ \A i \in DOMAIN m :
                             m[i][1] \in FieldNames =>
                                \A f \in {FieldNamed(m[i][1])} :
                                    /\ (i < first /\ m[i][2] # None) =>
                                           str(FormField_value(heap', heap'[f])) = str(m[i][2])
                                    /\ (i < first /\ m[i][2] = None) => heap'[f] = heap[f]
                                    /\ i > first => heap'[f] = heap[f]
      ]_vars

\* An update has set a select and then failed on the date after it, with
\* unknown keys ignored.
C7_Witness ==
    /\ last.op = "update"
    /\ last.ignore
    /\ last.err = "ValueError"
    /\ last.values = <<<<PyStr("a"), PyStr("a")>>, <<PyStr("d"), PyStr("a")>>>>
    /\ getitem(heap, _fields, PyStr("a")).value = PyStr("a")

(***************************************************************************)
(* Properties of the structure of a FilterForm.                            *)
(***************************************************************************)
\* C8: no two fields of the form have the same name.
C8_NamesUnique ==
    \A i, j \in DOMAIN _fields :
        i # j => heap[_fields[i]].name # heap[_fields[j]].name

\* C9: set_field of a field whose name a field of the form has puts it at
\* the position of such a field and leaves the other positions and the
\* length as they were; of a field without a name it raises ValueError, of
\* a name no field has KeyError, and the list is as it was.
C9_SetFieldReplaces ==
    [][last'.op = "set_field" =>
         LET field == last'.obj
             name == heap[field].name
         IN  /\ name = None => (last'.err = "ValueError" /\ _fields' = _fields)
             /\ (name # None /\ name \notin FieldNames) =>
                    (last'.err = "KeyError" /\ _fields' = _fields)
             /\ (name # None /\ name \in FieldNames) =>
                    /\ last'.err = ""
                    /\ Len(_fields') = Len(_fields)
                    /\ \E i \in DOMAIN _fields :
                          /\ heap[_fields[i]].name = name
                          /\ _fields'[i] = field
                          /\ \A j \in DOMAIN _fields : j # i => _fields'[j] = _fields[j]
      ]_vars

\* set_field has put object 3 where object 2 was.
C9_Witness ==
    /\ last.op = "set_field"
    /\ last.obj = 3
    /\ last.err = ""
    /\ _fields = <<1, 3>>

(***************************************************************************)
(* Further properties of a Select.                                         *)
(***************************************************************************)
\* The values of the options of a Select, in list order.
ValuesOf(sel) == [i \in DOMAIN sel._options |-> sel._options[i].value]

\* C11: a Select constructed without a value has the value "ANY" and the
\* sentinel selected; the option list of a constructed Select is the
\* sentinel followed by one option per given string in the given order; and
\* no set, reset or rename changes the options' identities, order or values.
C11_OptionListFixed ==
    /\ [](\A o \in Selects :
            /\ heap[o]._options[1].value = default_value
            /\ last.op = "init" =>
                  /\ ValuesOf(heap[o]) = <<default_value>> \o last.values
                  /\ ~Truthy(last.arg) =>
                        /\ Select_value(heap, heap[o]) = default_value
                        /\ Flagged(o) = {1})
    /\ [][\A o \in Selects :
            /\ ValuesOf(heap'[o]) = ValuesOf(heap[o])
            /\ [i \in DOMAIN heap'[o]._options |-> heap'[o]._options[i].id]
                 = [i \in DOMAIN heap[o]._options |-> heap[o]._options[i].id]]_vars

\* A Select built from two strings has been set, reset and renamed and still
\* lists the sentinel and the two strings in the given order.
C11_Witness ==
    /\ last.op = "Select.rename"
    /\ heap[1].name = PyStr("b")
    /\ Flagged(1) = {}
    /\ ValuesOf(heap[1]) = <<default_value, PyStr("b"), PyStr("a")>>

\* C12: after reset the getter returns None and no option is selected.
C12_ResetDeselects ==
    last.op = "Select.reset" =>
        /\ Flagged(last.obj) = {}
        /\ heap[last.obj]._value = NoneRef
        /\ Select_value(heap, heap[last.obj]) = None

\* reset has been called on a Select with options besides the sentinel.
C12_Witness ==
    /\ last.op = "Select.reset"
    /\ Len(heap[1]._options) = 3
    /\ Flagged(1) = {}

(***************************************************************************)
(* Properties of the value setters of both classes.                        *)
(***************************************************************************)
\* C13: a set to None raises nothing and leaves the field as it was: a
\* DateSelector keeps its value, a Select its selected option and flags.
C13_NullSetNoOp ==
    [][(/\ last'.op \in {"Select.value", "DateSelector.value"}
        /\ last'.arg = None)
       => /\ last'.err = ""
          /\ heap'[last'.obj] = heap[last'.obj]
          /\ FormField_value(heap', heap'[last'.obj]) = FormField_value(heap, heap[last'.obj])
      ]_vars

\* A Select that holds "a" has been set to None and still holds "a".
C13_Witness ==
    /\ last.op = "Select.value"
    /\ last.arg = None
    /\ last.obj = 2
    /\ Select_value(heap, heap[2]) = PyStr("a")
    /\ Flagged(2) = {2}

\* C14: after a set to a string that parses under date_format the getter
\* returns that string, character for character.
C14_ValidDateStoredVerbatim ==
    (/\ last.op = "DateSelector.value"
     /\ ParsesAsDate(last.arg))
    => /\ last.err = ""
       /\ DateSelector_value(heap[last.obj]) = last.arg

\* A date written without zero padding has been set and is read back as
\* written.
C14_Witness ==
    /\ last.op = "DateSelector.value"
    /\ last.arg = PyStr("2024-1-5")
    /\ last.err = ""
    /\ DateSelector_value(heap[1]) = PyStr("2024-1-5")

(***************************************************************************)
(* Properties of the utilities.                                            *)
(***************************************************************************)
\* The set of the keys of a dict's items.
KeySet(items) == {items[i][1] : i \in DOMAIN items}

\* C15: parse_cgi_value of a dict and a list of keys returns a mapping whose
\* keys are exactly the listed keys; a key maps to the string of its
\* parameter when the parameter is there, not empty and not the default
\* value, and to None otherwise.
C15_NormalizeParams ==
    (/\ last.op = "parse_cgi_value"
     /\ last.params[1] = "dict"
     /\ last.values[1] = "list")
    => /\ last.err = ""
       /\ last.result[1] = "dict"
       /\ LET params == last.params[2]
              res == last.result[2]
          IN  /\ KeySet(res) = {last.values[2][i] : i \in DOMAIN last.values[2]}
              /\ \A i, j \in DOMAIN res : res[i][1] = res[j][1] => i = j
              /\ \A i \in DOMAIN res :
                    LET given == {p \in DOMAIN params : params[p][1] = res[i][1]}
                    IN  IF \E p \in given : /\ params[p][2] # PyStr("")
                                            /\ params[p][2] # last.arg
                        THEN \E p \in given : res[i][2] = str(params[p][2])
                        ELSE res[i][2] = None

\* parse_cgi_value({k: "ANY"}, [k, m]) has returned {k: None, m: None}.
C15_Witness ==
    /\ last.op = "parse_cgi_value"
    /\ last.params = PyDict(<<<<PyStr("k"), PyStr("ANY")>>>>)
    /\ last.values = PyList(<<PyStr("k"), PyStr("m")>>)
    /\ last.arg = default_value
    /\ last.result = PyDict(<<<<PyStr("k"), None>>, <<PyStr("m"), None>>>>)

\* C16: extract_rows_unique_value of no rows returns an empty mapping; of
\* records that all have the keys of the first it returns, for each of those
\* keys, the values of the column other than None in ascending order, each
\* once; of records one of which has other keys it raises ValueError.
C16_UniqueColumnValues ==
    (/\ last.op = "extract_rows_unique_value"
     /\ last.params[1] = "list"
     /\ \A i \in DOMAIN last.params[2] : last.params[2][i][1] = "dict")
    => LET rows == last.params[2]
           column(k) ==
               UNION {{rows[i][2][j][2] : j \in {n \in DOMAIN rows[i][2] : rows[i][2][n][1] = k}} :
                        i \in DOMAIN rows}
       IN  /\ rows = <<>> => (last.err = "" /\ last.result = PyDict(<<>>))
           /\ (rows # <<>> /\ \E i \in DOMAIN rows : KeySet(rows[i][2]) # KeySet(rows[1][2]))
                 => last.err = "ValueError"
           /\ (rows # <<>> /\ \A i \in DOMAIN rows : KeySet(rows[i][2]) = KeySet(rows[1][2]))
                 => /\ last.err = ""
                    /\ last.result[1] = "dict"
                    /\ KeySet(last.result[2]) = KeySet(rows[1][2])
                    /\ \A e \in DOMAIN last.result[2] :
                          LET k == last.result[2][e][1]
                              seq == last.result[2][e][2][2]
                          IN  /\ last.result[2][e][2][1] = "list"
                              /\ {seq[n] : n \in DOMAIN seq} = column(k) \ {None}
                              /\ \A n \in 1..(Len(seq) - 1) : PyLess(seq[n], seq[n + 1])

\* Two records with a None and with values out of order have given the
\* columns [1] and ["x", "y"].
C16_Witness ==
    /\ last.op = "extract_rows_unique_value"
    /\ last.params = PyList(<<PyDict(<<<<PyStr("a"), None>>, <<PyStr("b"), PyStr("y")>>>>),
                              PyDict(<<<<PyStr("a"), PyInt("1")>>, <<PyStr("b"), PyStr("x")>>>>)>>)
    /\ last.result = PyDict(<<<<PyStr("a"), PyList(<<PyInt("1")>>)>>,
                              <<PyStr("b"), PyList(<<PyStr("x"), PyStr("y")>>)>>>>)

(***************************************************************************)
(* Properties of FilterForm.render.                                        *)
(***************************************************************************)
\* The labeled markup of the field at position i of the form.
Labeled(i) ==
    "<label>" \o heap[_fields[i]].label_name \o ": "
    \o FormField_render(heap[_fields[i]]) \o "</label>"

\* The labeled markups of the positions n .. Len(_fields), one after the
\* other.
RECURSIVE LabeledFrom(_)
LabeledFrom(n) == IF n > Len(_fields) THEN "" ELSE Labeled(n) \o LabeledFrom(n + 1)

\* C17: render returns the form's opening tag and hidden method input, then
\* the labeled markup of each position of _fields once and in the order of
\* the list, then the submit button and the closing tag; it changes neither
\* a field nor the list, so the output is a function of the form's state.
C17_RenderInFieldOrder ==
    [][last'.op = "render" =>
         /\ heap' = heap
         /\ _fields' = _fields
         /\ last'.result =
              PyStr("<form action='/dashboard/' method='GET'>"
                    \o "<input type='hidden' name='method' value='" \o cgi_method \o "'>"
                    \o LabeledFrom(1)
                    \o render_submit_button \o "</form>")
      ]_vars

\* A form in which two fields have the same name has been rendered.
C17_Witness ==
    /\ last.op = "render"
    /\ _fields = <<1, 2, 3>>
    /\ heap[2].name = heap[3].name
    /\ Len(last.result[2]) > 0

(***************************************************************************)
(* Properties of Select.rename on a field of a form.                       *)
(***************************************************************************)
\* C18: rename changes the label and the name of the Select and nothing
\* else, neither of it nor of another object nor of the list; and when the
\* Select is a field of the form, the new name differs from the old and no
\* other field has the new name, get_field of the new name returns the
\* Select and get_field of the old name raises KeyError.
C18_RenameLookup ==
    [][last'.op = "Select.rename" =>
         \A o \in {last'.obj} :
             /\ heap' = [heap EXCEPT ![o].label_name = last'.label, ![o].name = last'.arg]
             /\ Select_value(heap', heap'[o]) = Select_value(heap, heap[o])
             /\ _fields' = _fields
             /\ (/\ \E i \in DOMAIN _fields : _fields[i] = o
                 /\ last'.arg # heap[o].name
                 /\ \A i \in DOMAIN _fields :
                       _fields[i] # o => heap[_fields[i]].name # last'.arg)
                => /\ get_field(heap', _fields', last'.arg) = [field |-> o, err |-> ""]
                   /\ get_field(heap', _fields', heap[o].name).err = "KeyError"
      ]_vars

(***************************************************************************)
(* Agreement of set_field and get_field.                                   *)
(***************************************************************************)
\* C20: after a set_field(f) that raised nothing, get_field of the name of
\* f returns f and form[name of f] returns the value of f.
C20_SetFieldThenLookup ==
    [][(last'.op = "set_field" /\ last'.err = "") =>
         \A f \in {last'.obj} :
             /\ get_field(heap', _fields', heap'[f].name) = [field |-> f, err |-> ""]
             /\ getitem(heap', _fields', heap'[f].name) =
                   [value |-> FormField_value(heap', heap'[f]), err |-> ""]
      ]_vars

(***************************************************************************)
(* Properties of a request.                                                *)
(***************************************************************************)
\* C19: for a Select of the form whose parameter the request does not send,
\* or sends empty or as "ANY", parse_cgi_value gives None under the name of
\* the Select and the update leaves the Select as it was.
C19_DefaultParamKeepsSelection ==
    [][last'.op = "request" =>
         \A i \in DOMAIN _fields :
             \A f \in {_fields[i]} :
                 (/\ heap[f].kind = "select"
                  /\ dict_get(last'.params[2], heap[f].name)
                        \in {None, PyStr(""), PyStr("ANY")})
                 => /\ heap[f].name \in KeysOf(last'.values)
                    /\ dict_get(last'.values, heap[f].name) = None
                    /\ heap'[f] = heap[f]
      ]_vars

\* A request has sent "ANY" for the Select, which held "a" and holds it still.
C19_Witness ==
    /\ last.op = "request"
    /\ last.err = ""
    /\ dict_get(last.params[2], PyStr("a")) = PyStr("ANY")
    /\ Select_value(heap, heap[2]) = PyStr("a")

====
